---- MODULE Spec2Model ----
(***************************************************************************)
(* Model of the Fibonacci STARK verifier orchestrator                       *)
(* (src/src/bitcoin_script/mod.rs): FibonacciVerifierGadget::run_verifier   *)
(* builds a Bitcoin script out of gadget fragments, and test_verifier runs  *)
(* that script, followed by OP_TRUE, on the witness produced by the         *)
(* hinting pass.                                                            *)
(*                                                                          *)
(* The machine stack is kept in two parts: `hints` (the witness items not   *)
(* yet pulled, hints[1] being the bottom of the machine stack) and `stack`  *)
(* (everything the gadgets pushed above the witness; this is the region the *)
(* "stack:" comments of run_verifier describe).  The whole machine stack is *)
(* hints \o stack.                                                          *)
(***************************************************************************)
EXTENDS Integers, Sequences, FiniteSets, TLC

VARIABLES
    nQueries,       \* N_QUERIES of the build (imported constant, mod.rs:8)
    logSize,        \* the layer count of the build (FIB_LOG_SIZE, mod.rs:21)
    proofQueries,   \* number of queries of the proof handed to the hinting pass
    proofLayers,    \* number of FRI layers of the proof handed to the hinting pass
    tampered,       \* queries of the proof whose opened values were altered
    channel,        \* digest of the live Sha256Channel of test_verifier
    channel_clone,  \* digest of the clone taken at mod.rs:123
    tpc,            \* position in test_verifier
    script,         \* the script of mod.rs:131-134
    pc,             \* index of the next fragment of script to execute
    stack,          \* items pushed above the witness
    hints,          \* witness items not yet pulled
    consistent,     \* the data read so far is what the prover committed to
    remaining,      \* Fold gadget: layers remaining (-1 outside a Fold)
    foldTrace,      \* Fold gadget: layers folded so far for the current query
    checked,        \* queries whose equality check has executed, in order
    aborted,        \* the interpreter stopped on a failed check or stack error
    success         \* exec_result.success

vars == << nQueries, logSize, proofQueries, proofLayers, tampered, channel,
           channel_clone, tpc, script, pc, stack, hints, consistent,
           remaining, foldTrace, checked, aborted, success >>

(***************************************************************************)
(* Bounds of the model and constants of the program.                        *)
(***************************************************************************)
MaxQueries == 2

MaxLogSize == 2

FIB_LOG_SIZE == 5

\* Layer counts explored: the build's own value and small ones.
LogSizes == (1..MaxLogSize) \cup {FIB_LOG_SIZE}

\* Digest of Sha256Channel::default() after update_digest(hash(claim)).
SeedDigest == 1

(***************************************************************************)
(* Stack layout, from the "stack:" comments of run_verifier.                *)
(***************************************************************************)
Region(name, size) == [k \in 1..size |-> <<name, k>>]

RECURSIVE Concat(_)
Concat(regions) ==
    IF regions = <<>> THEN <<>>
    ELSE Head(regions) \o Concat(Tail(regions))

\* The Fiat-Shamir regions without the last-layer constant.
FiatShamirRegions_NoLastLayer(n, l) ==
    << Region("circle_poly_alpha", 4),
       Region("commitment_alpha", (1 + 4) * l),
       Region("queries", n),
       Region("trace_queries", 2 * n),
       Region("composition_queries", 8 * n),
       Region("masked_points", 3 * 8),
       Region("oods_point", 8) >>

\* Regions below Prepare's output (mod.rs:37-44).
FiatShamirRegions(n, l) ==
    << Region("circle_poly_alpha", 4),
       Region("commitment_alpha", (1 + 4) * l),
       Region("last_layer", 4),
       Region("queries", n),
       Region("trace_queries", 2 * n),
       Region("composition_queries", 8 * n),
       Region("masked_points", 3 * 8),
       Region("oods_point", 8) >>

\* Prepare's regions with three composition (a, b) pairs instead of four.
PrepareRegions_ThreeCompositionPairs ==
    << Region("trace_ab", 3 * 2 * 2),
       Region("composition_ab", 3 * 2 * 2),
       Region("prepared_masked_points", 3 * 4),
       Region("prepared_oods_point", 4),
       Region("coeff_powers", 24) >>

\* Regions pushed by Prepare (mod.rs:45-49).
PrepareRegions ==
    << Region("trace_ab", 3 * 2 * 2),
       Region("composition_ab", 4 * 2 * 2),
       Region("prepared_masked_points", 3 * 4),
       Region("prepared_oods_point", 4),
       Region("coeff_powers", 24) >>

FiatShamirLayout(n, l) == Concat(FiatShamirRegions(n, l))

Layout(n, l) == FiatShamirLayout(n, l) \o Concat(PrepareRegions)

\* The top k items of s.
Top(s, k) == SubSeq(s, Len(s) - k + 1, Len(s))

\* s without its top k items.
Drop(s, k) == SubSeq(s, 1, Len(s) - k)

EndsWith(s, t) == Len(s) >= Len(t) /\ Top(s, Len(t)) = t

(***************************************************************************)
(* run_verifier (mod.rs:28-74).                                             *)
(***************************************************************************)
Frag(op, arg) == [op |-> op, arg |-> arg]

\* A cleanup count that forgets the last-layer constant.
CleanCount_NoLastLayer(n, l) ==
    24 + 4 + 12 + 16 + 12 + 8 + 24 + (2 + 8 + 1) * n + (1 + 4) * l + 4

\* A cleanup count that forgets the query indices, one item per query.
CleanCount_NoQueryIndices(n, l) ==
    24 + 4 + 12 + 16 + 12 + 8 + 24 + (2 + 8) * n + 4 + (1 + 4) * l + 4

\* mod.rs:72
CleanCount(n, l) ==
    24 + 4 + 12 + 16 + 12 + 8 + 24 + (2 + 8 + 1) * n + 4 + (1 + 4) * l + 4

\* A loop body that emits Fold(i) before Quotient(i).
QueryBody_FoldFirst(i) == << Frag("Fold", i), Frag("Quotient", i) >>

\* A loop body that emits no Fold(i).
QueryBody_NoFold(i) == << Frag("Quotient", i) >>

\* mod.rs:52-53, the body of the loop
QueryBody(i) == << Frag("Quotient", i), Frag("Fold", i) >>

\* A loop that stops one query early.
RECURSIVE QueryLoop_SkipLast(_, _)
QueryLoop_SkipLast(i, n) ==
    IF i >= n - 1 THEN <<>> ELSE QueryBody(i) \o QueryLoop_SkipLast(i + 1, n)

\* mod.rs:51-54, iterations i, i+1, ..., n-1
RECURSIVE QueryLoop(_, _)
QueryLoop(i, n) ==
    IF i >= n THEN <<>> ELSE QueryBody(i) \o QueryLoop(i + 1, n)

run_verifier(ch, n, l) ==
    << Frag("FiatShamir", ch), Frag("Prepare", 0) >>
      \o QueryLoop(0, n)
      \o << Frag("clean_stack", CleanCount(n, l)) >>

\* The live channel, which the hinting pass has advanced.
VerifierChannel_Live == channel

\* mod.rs:132: the channel handed to run_verifier
VerifierChannel == channel_clone

\* mod.rs:131-134
TestScript(n, l) == run_verifier(VerifierChannel, n, l) \o << Frag("OP_TRUE", 0) >>

(***************************************************************************)
(* The witness produced by the hinting pass for a proof of a given shape.   *)
(***************************************************************************)
\* Items the Fiat-Shamir gadget pulls: commitments, last layer, openings.
HintFiatShamir(n, l) ==
    Region("h_commitment", l) \o Region("h_last_layer", 4)
      \o Region("h_trace", 2 * n) \o Region("h_composition", 8 * n)

\* Items Fold(q) pulls: one sibling opening per layer.
HintFold(q, l) == [k \in 1..l |-> <<"h_sibling", q * l + k>>]

RECURSIVE HintFolds(_, _, _)
HintFolds(q, n, l) ==
    IF q >= n THEN <<>> ELSE HintFold(q, l) \o HintFolds(q + 1, n, l)

verify_with_hints(n, l) == HintFiatShamir(n, l) \o HintFolds(0, n, l)

\* The folded value of a query after k layers (4 items).
FoldedValue(k) == [j \in 1..4 |-> <<"folded", 4 * k + j>>]

Marker == <<"OP_TRUE", 1>>

(***************************************************************************)
(* Initial state: test_verifier after seeding its channel (mod.rs:118-122). *)
(***************************************************************************)
Init ==
    /\ nQueries \in 1..MaxQueries
    /\ logSize \in LogSizes
    /\ proofQueries \in 1..MaxQueries
    /\ proofLayers \in LogSizes
    /\ tampered \in SUBSET (0..(proofQueries - 1))
    /\ channel = SeedDigest
    /\ channel_clone = 0
    /\ tpc = "clone"
    /\ script = <<>>
    /\ pc = 1
    /\ stack = <<>>
    /\ hints = <<>>
    /\ consistent = TRUE
    /\ remaining = -1
    /\ foldTrace = <<>>
    /\ checked = <<>>
    /\ aborted = FALSE
    /\ success = FALSE

params == << nQueries, logSize, proofQueries, proofLayers, tampered >>

(***************************************************************************)
(* test_verifier (mod.rs:118-142).                                          *)
(***************************************************************************)
\* mod.rs:123
CloneChannel ==
    /\ tpc = "clone"
    /\ channel_clone' = channel
    /\ tpc' = "hint"
    /\ UNCHANGED << params, channel, script, pc, stack, hints, consistent,
                    remaining, foldTrace, checked, aborted, success >>

\* mod.rs:125-129: the hinting pass advances the live channel.
VerifyWithHints ==
    /\ tpc = "hint"
    /\ channel' = channel + 1
    /\ hints' = verify_with_hints(proofQueries, proofLayers)
    /\ tpc' = "build"
    /\ UNCHANGED << params, channel_clone, script, pc, stack, consistent,
                    remaining, foldTrace, checked, aborted, success >>

\* mod.rs:131-134
BuildScript ==
    /\ tpc = "build"
    /\ script' = TestScript(nQueries, logSize)
    /\ pc' = 1
    /\ tpc' = "exec"
    /\ UNCHANGED << params, channel, channel_clone, stack, hints, consistent,
                    remaining, foldTrace, checked, aborted, success >>

(***************************************************************************)
(* Execution of the script, one fragment (or one Fold layer) per step.      *)
(***************************************************************************)
Running == tpc = "exec" /\ ~aborted /\ pc <= Len(script)

Abort ==
    /\ aborted' = TRUE
    /\ UNCHANGED << params, channel, channel_clone, tpc, script, pc, stack,
                    hints, consistent, remaining, foldTrace, checked, success >>

ExecFiatShamir ==
    /\ Running
    /\ script[pc].op = "FiatShamir"
    /\ LET need == Len(HintFiatShamir(nQueries, logSize)) IN
       IF Len(hints) < need
       THEN Abort
       ELSE /\ hints' = SubSeq(hints, need + 1, Len(hints))
            /\ stack' = stack \o FiatShamirLayout(nQueries, logSize)
            /\ consistent' = ( /\ consistent
                               /\ SubSeq(hints, 1, need) = HintFiatShamir(nQueries, logSize)
                               /\ script[pc].arg = SeedDigest )
            /\ pc' = pc + 1
            /\ UNCHANGED << params, channel, channel_clone, tpc, script,
                            remaining, foldTrace, checked, aborted, success >>

ExecPrepare ==
    /\ Running
    /\ script[pc].op = "Prepare"
    /\ IF Len(stack) < Len(FiatShamirLayout(nQueries, logSize))
       THEN Abort
       ELSE /\ stack' = stack \o Concat(PrepareRegions)
            /\ consistent' = ( /\ consistent
                               /\ EndsWith(stack, FiatShamirLayout(nQueries, logSize)) )
            /\ pc' = pc + 1
            /\ UNCHANGED << params, channel, channel_clone, tpc, script, hints,
                            remaining, foldTrace, checked, aborted, success >>

ExecQuotient ==
    /\ Running
    /\ script[pc].op = "Quotient"
    /\ IF Len(stack) < Len(Layout(nQueries, logSize))
       THEN Abort
       ELSE /\ stack' = stack \o FoldedValue(0)
            /\ consistent' = ( /\ consistent
                               /\ EndsWith(stack, Layout(nQueries, logSize)) )
            /\ pc' = pc + 1
            /\ UNCHANGED << params, channel, channel_clone, tpc, script, hints,
                            remaining, foldTrace, checked, aborted, success >>

ExecFoldStart ==
    /\ Running
    /\ script[pc].op = "Fold"
    /\ remaining = -1
    /\ remaining' = logSize
    /\ foldTrace' = <<>>
    /\ UNCHANGED << params, channel, channel_clone, tpc, script, pc, stack,
                    hints, consistent, checked, aborted, success >>

\* A step that counts two layers for one.
LayersAfterStep_SkipLayer(r) == IF r >= 2 THEN r - 2 ELSE 0

\* Layers remaining after one fold step.
LayersAfterStep(r) == r - 1

ExecFoldStep ==
    /\ Running
    /\ script[pc].op = "Fold"
    /\ remaining > 0
    /\ LET k == logSize - remaining + 1
           i == script[pc].arg
       IN
       IF Len(hints) < 1 \/ Len(stack) < 4
       THEN Abort
       ELSE /\ hints' = Tail(hints)
            /\ stack' = Drop(stack, 4) \o FoldedValue(k)
            /\ consistent' = ( /\ consistent
                               /\ Head(hints) = <<"h_sibling", i * logSize + k>>
                               /\ Top(stack, 4) = FoldedValue(k - 1)
                               /\ EndsWith(Drop(stack, 4), Layout(nQueries, logSize)) )
            /\ remaining' = LayersAfterStep(remaining)
            /\ foldTrace' = Append(foldTrace, k)
            /\ UNCHANGED << params, channel, channel_clone, tpc, script, pc,
                            checked, aborted, success >>

\* The equality check of the folded value against the last-layer constant.
CheckPasses(i) ==
    /\ consistent
    /\ i \notin tampered
    /\ Top(stack, 4) = FoldedValue(logSize)
    /\ EndsWith(Drop(stack, 4), Layout(nQueries, logSize))

ExecFoldCheck ==
    /\ Running
    /\ script[pc].op = "Fold"
    /\ remaining = 0
    /\ LET i == script[pc].arg IN
       IF Len(stack) < 4
       THEN Abort
       ELSE /\ checked' = Append(checked, i)
            /\ IF CheckPasses(i)
               THEN /\ stack' = Drop(stack, 4)
                    /\ pc' = pc + 1
                    /\ remaining' = -1
                    /\ UNCHANGED aborted
               ELSE /\ aborted' = TRUE
                    /\ UNCHANGED << stack, pc, remaining >>
            /\ UNCHANGED << params, channel, channel_clone, tpc, script, hints,
                            consistent, foldTrace, success >>

\* clean_stack(n) drops the top n items of the machine stack hints \o stack.
ExecCleanStack ==
    /\ Running
    /\ script[pc].op = "clean_stack"
    /\ LET n == script[pc].arg IN
       IF n > Len(hints) + Len(stack)
       THEN Abort
       ELSE /\ IF n <= Len(stack)
               THEN stack' = Drop(stack, n) /\ UNCHANGED hints
               ELSE stack' = <<>> /\ hints' = Drop(hints, n - Len(stack))
            /\ pc' = pc + 1
            /\ UNCHANGED << params, channel, channel_clone, tpc, script,
                            consistent, remaining, foldTrace, checked, aborted,
                            success >>

ExecOpTrue ==
    /\ Running
    /\ script[pc].op = "OP_TRUE"
    /\ stack' = Append(stack, Marker)
    /\ pc' = pc + 1
    /\ UNCHANGED << params, channel, channel_clone, tpc, script, hints,
                    consistent, remaining, foldTrace, checked, aborted, success >>

\* mod.rs:138-142: the interpreter's verdict.
Finish ==
    /\ tpc = "exec"
    /\ aborted \/ pc > Len(script)
    /\ tpc' = "finished"
    /\ success' = (~aborted /\ Len(hints) = 0 /\ stack = << Marker >>)
    /\ UNCHANGED << params, channel, channel_clone, script, pc, stack, hints,
                    consistent, remaining, foldTrace, checked, aborted >>

Next ==
    \/ CloneChannel
    \/ VerifyWithHints
    \/ BuildScript
    \/ ExecFiatShamir
    \/ ExecPrepare
    \/ ExecQuotient
    \/ ExecFoldStart
    \/ ExecFoldStep
    \/ ExecFoldCheck
    \/ ExecCleanStack
    \/ ExecOpTrue
    \/ Finish

Spec == Init /\ [][Next]_vars

\* The interpreter runs the script to its end: no step is postponed forever.
FairSpec == Spec /\ WF_vars(Next)

(***************************************************************************)
(* Vocabulary of the properties.                                            *)
(***************************************************************************)
Built == tpc \in {"exec", "finished"}

\* The proof has the shape the script was unrolled for.
ShapesMatch == proofQueries = nQueries /\ proofLayers = logSize

ValidProof == ShapesMatch /\ tampered = {}

\* Every fragment of run_verifier has executed; only OP_TRUE is left.
AtEndOfVerifier == Built /\ ~aborted /\ pc = Len(script)

\* The whole script has executed.
AtEndOfScript == Built /\ ~aborted /\ pc = Len(script) + 1

\* The next fragment to execute is op.
AtFragment(op) == tpc = "exec" /\ ~aborted /\ pc <= Len(script) /\ script[pc].op = op

Ascending(s) == \A j \in 1..Len(s) : s[j] = j - 1

CountOf(name) == Cardinality({p \in 1..Len(stack) : stack[p][1] = name})

\* The region of the item at depth p from the bottom, for n queries and l layers,
\* in the order of the stack comment of run_verifier.
NameAt(p, n, l) ==
    IF p <= 4 THEN "circle_poly_alpha"
    ELSE IF p <= 4 + 5 * l THEN "commitment_alpha"
    ELSE IF p <= 8 + 5 * l THEN "last_layer"
    ELSE IF p <= 8 + 5 * l + n THEN "queries"
    ELSE IF p <= 8 + 5 * l + 3 * n THEN "trace_queries"
    ELSE IF p <= 8 + 5 * l + 11 * n THEN "composition_queries"
    ELSE IF p <= 32 + 5 * l + 11 * n THEN "masked_points"
    ELSE IF p <= 40 + 5 * l + 11 * n THEN "oods_point"
    ELSE IF p <= 52 + 5 * l + 11 * n THEN "trace_ab"
    ELSE IF p <= 68 + 5 * l + 11 * n THEN "composition_ab"
    ELSE IF p <= 80 + 5 * l + 11 * n THEN "prepared_masked_points"
    ELSE IF p <= 84 + 5 * l + 11 * n THEN "prepared_oods_point"
    ELSE "coeff_powers"

NamesInOrder == \A p \in 1..Len(stack) : stack[p][1] = NameAt(p, nQueries, logSize)

(***************************************************************************)
(* C1                                                                       *)
(***************************************************************************)
\* C1 (as stated): once every fragment of run_verifier has executed, the
\* machine stack holds exactly the success marker.
C1_VerifierLeavesMarker ==
    AtEndOfVerifier => (Len(hints) = 0 /\ stack = << Marker >>)

\* C1 (amended): once every fragment of run_verifier has executed, the machine
\* stack is empty (witness and all thirteen regions gone); the success marker
\* is the OP_TRUE test_verifier appends, after which the stack holds only it.
C1_VerifierLeavesEmptyStack ==
    /\ AtEndOfVerifier => (Len(hints) = 0 /\ stack = <<>>)
    /\ AtEndOfScript => (Len(hints) = 0 /\ stack = << Marker >>)

C1_Witness ==
    /\ AtEndOfScript
    /\ stack = << Marker >>
    /\ logSize = FIB_LOG_SIZE
    /\ nQueries = MaxQueries

(***************************************************************************)
(* C2                                                                       *)
(***************************************************************************)
\* C2: a valid proof (of the shape the script was unrolled for, no opened
\* value altered), turned into the witness by the hinting pass and run against
\* the script built from the channel as it was before the hinting pass, never
\* aborts and ends with success reported.
C2_ValidProofSucceeds ==
    /\ [](ValidProof => ~aborted)
    /\ [](ValidProof => <>(tpc = "finished" /\ success))

C2_Witness ==
    /\ ValidProof
    /\ tpc = "finished"
    /\ success
    /\ channel # channel_clone
    /\ script[1] = Frag("FiatShamir", SeedDigest)
    /\ Len(checked) = nQueries

(***************************************************************************)
(* C3                                                                       *)
(***************************************************************************)
\* C3: the script of run_verifier is Fiat-Shamir, Prepare, then Quotient(i)
\* immediately followed by Fold(i) for i = 0, ..., N_QUERIES-1 in ascending
\* order, then clean_stack as its last fragment; every fragment occurs once,
\* and the equality checks execute in ascending query order.
C3_FragmentOrder ==
    Built =>
      /\ Len(script) = 2 * nQueries + 4
      /\ script[1] = Frag("FiatShamir", channel_clone)
      /\ script[2] = Frag("Prepare", 0)
      /\ \A i \in 0..(nQueries - 1) :
           /\ script[3 + 2 * i] = Frag("Quotient", i)
           /\ script[4 + 2 * i] = Frag("Fold", i)
      /\ script[2 * nQueries + 3].op = "clean_stack"
      /\ script[2 * nQueries + 4].op = "OP_TRUE"
      /\ \A p, q \in 1..Len(script) : script[p] = script[q] => p = q
      /\ Ascending(checked)

C3_Witness ==
    /\ AtEndOfVerifier
    /\ nQueries = MaxQueries
    /\ checked = [j \in 1..MaxQueries |-> j - 1]

(***************************************************************************)
(* C4                                                                       *)
(***************************************************************************)
Min(S) == CHOOSE x \in S : \A y \in S : x <= y

\* C4: success is reported only if the equality check of every query
\* 0..N_QUERIES-1 executed and passed; a failed check aborts on the spot (for a
\* proof of the right shape: at the check of the first altered query), and
\* after an abort no fragment executes, the stack is left as it is and success
\* is never reported.
C4_ChecksAreConjunctive ==
    /\ [](success => /\ checked = [j \in 1..nQueries |-> j - 1]
                     /\ tampered \cap (0..(nQueries - 1)) = {}
                     /\ consistent)
    /\ []((tpc = "finished" /\ ShapesMatch /\ tampered # {}) =>
            /\ aborted
            /\ ~success
            /\ checked = [j \in 1..(Min(tampered) + 1) |-> j - 1]
            /\ pc = 4 + 2 * Min(tampered))
    /\ [][(checked' # checked /\ ~CheckPasses(script[pc].arg)) => aborted']_vars
    /\ [][aborted => /\ aborted'
                     /\ ~success'
                     /\ << pc, stack, hints, checked >>' = << pc, stack, hints, checked >>]_vars

C4_Witness ==
    /\ tpc = "finished"
    /\ aborted
    /\ ~success
    /\ ShapesMatch
    /\ tampered = {1}
    /\ checked = << 0, 1 >>
    /\ pc = 6

(***************************************************************************)
(* C5                                                                       *)
(***************************************************************************)
\* C5: when the proof's query count or layer count differs from the one the
\* script is unrolled for, run_verifier returns no program: no script is built
\* and nothing executes.
C5_MismatchRejectedAtGeneration ==
    ~ShapesMatch => (~Built /\ script = <<>>)

(***************************************************************************)
(* C6                                                                       *)
(***************************************************************************)
\* The Fiat-Shamir gadget has just executed.
AfterFiatShamir == tpc = "exec" /\ ~aborted /\ pc = 2

ThirteenRegions ==
    { "circle_poly_alpha", "commitment_alpha", "last_layer", "queries",
      "trace_queries", "composition_queries", "masked_points", "oods_point",
      "trace_ab", "composition_ab", "prepared_masked_points",
      "prepared_oods_point", "coeff_powers" }

\* C7: when cleanup starts, the count handed to clean_stack is
\* 108 + 11*N_QUERIES + 5*layers and is exactly the number of items of the
\* thirteen regions (circle_poly_alpha through the coefficient powers), which
\* are all that lies above the witness; when cleanup has run, none is left and
\* nothing below them was removed.
C7_CleanCountIsLayoutSize ==
    /\ AtFragment("clean_stack") =>
         /\ script[pc].arg = 108 + 11 * nQueries + 5 * logSize
         /\ script[pc].arg = Len(stack)
         /\ { stack[p][1] : p \in 1..Len(stack) } = ThirteenRegions
         /\ NamesInOrder
         /\ CountOf("coeff_powers") = 24
    /\ AtEndOfVerifier => (stack = <<>> /\ Len(hints) = 0)

C7_Witness ==
    /\ AtFragment("clean_stack")
    /\ logSize = FIB_LOG_SIZE
    /\ nQueries = MaxQueries
    /\ script[pc].arg = 108 + 11 * MaxQueries + 5 * FIB_LOG_SIZE
    /\ Len(stack) = script[pc].arg

C9_QueryIterationIsStackNeutral ==
    (AtFragment("Quotient") \/ AtFragment("clean_stack")) =>
      /\ Len(stack) = 108 + 11 * nQueries + 5 * logSize
      /\ stack = Layout(nQueries, logSize)
      /\ NamesInOrder
      /\ CountOf("trace_queries") = 2 * nQueries
      /\ CountOf("composition_queries") = 8 * nQueries
      /\ remaining = -1

C9_Witness ==
    /\ AtFragment("Quotient")
    /\ script[pc].arg = 1
    /\ checked = << 0 >>
    /\ tampered = {1}
    /\ Len(stack) = 108 + 11 * nQueries + 5 * logSize

(***************************************************************************)
(* C10                                                                      *)
(***************************************************************************)
\* C10: Fold(i) counts layers down: it starts with layers-remaining equal to
\* the layer count (one per (commitment, alpha) pair on the stack); each step
\* pulls one layer's opening, replaces the folded value (the depth does not
\* change) and decrements layers-remaining by one; layers are used in the
\* order 1, 2, ..., none skipped or reused; the equality check executes once
\* per query, only when layers-remaining is 0.
C10_FoldCountsLayersDown ==
    /\ [](remaining \in -1..logSize)
    /\ [](remaining >= 0 =>
            /\ foldTrace = [j \in 1..(logSize - remaining) |-> j]
            /\ CountOf("commitment_alpha") = (1 + 4) * logSize
            /\ Top(stack, 4) = FoldedValue(logSize - remaining))
    /\ [][remaining' # remaining =>
            \/ remaining = -1 /\ remaining' = logSize /\ stack' = stack
            \/ /\ remaining > 0
               /\ remaining' = remaining - 1
               /\ Len(hints') = Len(hints) - 1
               /\ Len(stack') = Len(stack)
               /\ Drop(stack', 4) = Drop(stack, 4)
               /\ Top(stack', 4) # Top(stack, 4)
            \/ remaining = 0 /\ remaining' = -1 /\ checked' # checked]_vars
    /\ [][checked' # checked =>
            /\ remaining = 0
            /\ foldTrace = [j \in 1..logSize |-> j]
            /\ checked' = Append(checked, script[pc].arg)
            /\ script[pc].arg \notin { checked[j] : j \in 1..Len(checked) }]_vars

C10_Witness ==
    /\ AtFragment("Fold")
    /\ remaining = 0
    /\ logSize = FIB_LOG_SIZE
    /\ foldTrace = << 1, 2, 3, 4, 5 >>
    /\ script[pc].arg = 1

====
